---- MODULE Spec2Model ----
(***************************************************************************)
(* Model of csv2influx's LineProtocolExporter (src/csv2influx/             *)
(* lineprotocol.py): schema validation in the constructor, the three       *)
(* sanitizers and the per-row export to InfluxDB Line Protocol.            *)
(*                                                                         *)
(* A Python string is a sequence of one-character strings, so that         *)
(* str.replace, str.lower, str.join and the % formatting are computed      *)
(* character by character.  List positions are 0-based as in Python.       *)
(***************************************************************************)
EXTENDS Integers, Sequences, FiniteSets, TLC

VARIABLES pc, args, labels, measurement, tag_columns, field_columns,
          field_types, timestamp, field_columns_indexes, tag_columns_indexes,
          error, call, exports, fn

vars == <<pc, args, labels, measurement, tag_columns, field_columns,
          field_types, timestamp, field_columns_indexes, tag_columns_indexes,
          error, call, exports, fn>>

\* The exporter object: its attributes.
self == [labels |-> labels, measurement |-> measurement,
         tag_columns |-> tag_columns, field_columns |-> field_columns,
         field_types |-> field_types, timestamp |-> timestamp,
         field_columns_indexes |-> field_columns_indexes,
         tag_columns_indexes |-> tag_columns_indexes]

---------------------------------------------------------------------------
(* Bounds of the model.                                                    *)

MaxLabels == 1
MaxTags == 1
MaxFields == 1
MaxLen == 3
MaxCalls == 2

---------------------------------------------------------------------------
(* Python values.                                                          *)

\* Python's None; '%s' % None is the text None.
None == <<"<None>">>
\* An attribute that __init__ has not assigned (yet).
Unset == <<"<unset>">>
\* No return value: the call raised.
NoLine == <<"<raised>">>

BS == "\\"
DQ == "\""

StrOfNone == <<"N", "o", "n", "e">>

FormatS(v) == IF v = None THEN StrOfNone ELSE v

UpperTab == <<"A","B","C","D","E","F","G","H","I","J","K","L","M",
              "N","O","P","Q","R","S","T","U","V","W","X","Y","Z">>
LowerTab == <<"a","b","c","d","e","f","g","h","i","j","k","l","m",
              "n","o","p","q","r","s","t","u","v","w","x","y","z">>

LowerChar(c) ==
    IF \E i \in 1..Len(UpperTab) : UpperTab[i] = c
    THEN LowerTab[CHOOSE i \in 1..Len(UpperTab) : UpperTab[i] = c]
    ELSE c

\* str.lower()
Lower(s) == [i \in 1..Len(s) |-> LowerChar(s[i])]

\* str.replace(old, new) for a one-character old: one left-to-right pass
\* over the receiver, the replacement text is not scanned again.
RECURSIVE Replace(_, _, _)
Replace(s, old, new) ==
    IF s = <<>> THEN <<>>
    ELSE (IF Head(s) = old THEN new ELSE <<Head(s)>>) \o Replace(Tail(s), old, new)

\* sep.join(list)
RECURSIVE Join(_, _)
Join(sep, lst) ==
    IF lst = <<>> THEN <<>>
    ELSE IF Len(lst) = 1 THEN lst[1]
    ELSE lst[1] \o sep \o Join(sep, Tail(lst))

\* set(list)
SetOf(lst) == {lst[i] : i \in 1..Len(lst)}

\* list.index(x): the first 0-based position of x; callers test Has first,
\* the ValueError of an absent x is an outcome of the calling action.
Has(lst, x) == \E i \in 1..Len(lst) : lst[i] = x
Index(lst, x) ==
    (CHOOSE i \in 1..Len(lst) : lst[i] = x /\ \A j \in 1..(i-1) : lst[j] # x) - 1

\* lst[i] with Python's 0-based i
At(lst, i) == lst[i + 1]

---------------------------------------------------------------------------
(* The static methods.                                                     *)

VALID_FIELD_TYPES == {"float", "int", "str", "bool"}

\* The '=' escape left out, as sanitize_measurement does.
sanitize_NoEquals(value) ==
    Lower(Replace(Replace(value, ",", <<BS, ",">>), " ", <<BS, " ">>))

sanitize(value) ==
    Lower(Replace(Replace(Replace(value, ",", <<BS, ",">>),
                          " ", <<BS, " ">>),
                  "=", <<BS, "=">>))

sanitize_measurement(value) ==
    Lower(Replace(Replace(value, ",", <<BS, ",">>), " ", <<BS, " ">>))

\* The literal '\"' of line 90 is the one-character string ", so the
\* replacement maps a double quote to a double quote.
sanitize_field_value(value, typ) ==
    IF typ = "int" THEN value \o <<"i">>
    ELSE IF typ = "float" THEN value
    ELSE IF typ = "str" THEN <<DQ>> \o Replace(value, DQ, <<DQ>>) \o <<DQ>>
    ELSE IF typ = "bool" THEN value
    ELSE None

---------------------------------------------------------------------------
(* Inputs.                                                                 *)

\* The sequences over S of length at most n.
BSeq(S, n) == UNION {[1..k -> S] : k \in 0..n}

\* Header and column names: a plain name, a name with an uppercase letter
\* and a space, and the name that is the sanitized form of the latter.
Names == {<<"a">>, <<"A", " ">>, <<"a", BS, " ">>}

\* Field type tags: the valid ones and one that is not.
TypeTags == VALID_FIELD_TYPES \cup {"text"}

Measurements == {<<"M", ",", " ", "=">>}

Timestamps == {None, <<"1", "4">>}

\* Cell values of a row.
Values == {<<"5">>, <<"T", " ", DQ>>}

ExampleArgs ==
    [labels |-> << <<"t","i","m","e">>, <<"s","p","e","e","d">>,
                   <<"n","a","m","e">>, <<"c","l","a","s","s">> >>,
     measurement |-> <<"c","a","r","s">>,
     tag_columns |-> << <<"n","a","m","e">>, <<"c","l","a","s","s">> >>,
     field_columns |-> << <<"s","p","e","e","d">> >>,
     field_types |-> <<"int">>,
     timestamp |-> <<"1","4","7","4","8","5","5","2","0","0",
                     "0","0","0","0","0","0","0","0","0">>]

ExampleRow ==
    << <<"2","0","1","6","-","0","9","-","2","6">>, <<"5","5">>,
       <<"M","o","d","e","l"," ","T">>, <<"v","i","n","t","a","g","e">> >>

ExampleLine ==
    <<"c","a","r","s",",","n","a","m","e","=","m","o","d","e","l",BS," ","t",
      ",","c","l","a","s","s","=","v","i","n","t","a","g","e"," ",
      "s","p","e","e","d","=","5","5","i"," ",
      "1","4","7","4","8","5","5","2","0","0","0","0","0","0","0","0","0","0","0">>

\* A header holding a name and, after it, the sanitized form of that name.
EscapedPairArgs ==
    [labels |-> << <<"A", " ">>, <<"a", BS, " ">> >>,
     measurement |-> <<"m">>,
     tag_columns |-> << <<"A", " ">> >>,
     field_columns |-> << <<"A", " ">> >>,
     field_types |-> <<"str">>,
     timestamp |-> <<"1", "4">>]

ArgsSet ==
    [labels : BSeq(Names, MaxLabels),
     measurement : Measurements,
     tag_columns : BSeq(Names, MaxTags),
     field_columns : BSeq(Names, MaxFields),
     field_types : BSeq(TypeTags, MaxFields),
     timestamp : Timestamps] \cup {ExampleArgs, EscapedPairArgs}

\* The rows offered to an encoder of n labels: every row of n cells, one
\* row a cell short, one row a cell long, and the example row.
Rows(n) ==
    [1..n -> Values]
        \cup {[i \in 1..(n + 1) |-> <<"5">>]}
        \cup (IF n > 0 THEN {[i \in 1..(n - 1) |-> <<"5">>]} ELSE {})
        \cup {ExampleRow}

NoCall == [op |-> "none", lst |-> <<>>, kind |-> "none", ret |-> NoLine]

NoFn == [name |-> "none", value |-> <<>>, typ |-> "int", ret |-> <<>>]

---------------------------------------------------------------------------
(* LineProtocolExporter.__init__                                           *)

\* [self.sanitize(s) for s in lst]
SanitizeAll(lst) == [i \in 1..Len(lst) |-> sanitize(lst[i])]

\* line 33
TypeInvalid(ft) == \E i \in 1..Len(ft) : ft[i] \notin VALID_FIELD_TYPES

\* Only a shortage of types is noticed.
CountMismatch_MoreColumns(fc, ft) == Len(fc) > Len(ft)

\* line 35
CountMismatch(fc, ft) == Len(fc) # Len(ft)

\* The field columns left out of the consistency check.
NotSubset_TagsOnly(tc, fc, ls) == ~ (SetOf(tc) \subseteq SetOf(ls))

\* lines 44-46
NotSubset(tc, fc, ls) == ~ (SetOf(tc \o fc) \subseteq SetOf(ls))

\* The exception leaves __init__: the attributes assigned so far stay
\* assigned, the others are never set, and no encoder is returned.
Raise(kind, ls, m, tc, ts, fc, ft, fci) ==
    /\ pc' = "failed"
    /\ error' = kind
    /\ labels' = ls
    /\ measurement' = m
    /\ tag_columns' = tc
    /\ timestamp' = ts
    /\ field_columns' = fc
    /\ field_types' = ft
    /\ field_columns_indexes' = fci
    /\ tag_columns_indexes' = Unset

Construct ==
    /\ pc = "new"
    /\ LET ls == SanitizeAll(args.labels)
           m  == sanitize_measurement(args.measurement)
           tc == SanitizeAll(args.tag_columns)
           ts == args.timestamp
           fc == SanitizeAll(args.field_columns)
           ft == args.field_types
           fci == [i \in 1..Len(fc) |-> Index(ls, fc[i])]
       IN  IF TypeInvalid(ft)
           THEN Raise("InvalidSchema", ls, m, tc, ts, Unset, Unset, Unset)
           ELSE IF CountMismatch(args.field_columns, ft)
           THEN Raise("InvalidSchema", ls, m, tc, ts, Unset, Unset, Unset)
           ELSE IF NotSubset(tc, fc, ls)
           THEN Raise("UnknownColumn", ls, m, tc, ts, fc, ft, Unset)
           ELSE IF \E i \in 1..Len(fc) : ~ Has(ls, fc[i])
           THEN Raise("ValueError", ls, m, tc, ts, fc, ft, Unset)
           \* line 53 looks the sanitized tag names up in the raw labels
           \* argument, not in self.labels
           ELSE IF \E i \in 1..Len(tc) : ~ Has(args.labels, tc[i])
           THEN Raise("ValueError", ls, m, tc, ts, fc, ft, fci)
           ELSE /\ pc' = "ready"
                /\ error' = "none"
                /\ labels' = ls
                /\ measurement' = m
                /\ tag_columns' = tc
                /\ timestamp' = ts
                /\ field_columns' = fc
                /\ field_types' = ft
                /\ field_columns_indexes' = fci
                /\ tag_columns_indexes' =
                       [i \in 1..Len(tc) |-> Index(args.labels, tc[i])]
    /\ UNCHANGED <<args, call, exports, fn>>

---------------------------------------------------------------------------
(* LineProtocolExporter.export                                             *)

\* The methods take the object as their first parameter, as in Python.

\* Only a short row is refused.
ArityMatches_AtLeast(e, lst) == Len(lst) >= Len(e.labels)

\* line 98
ArityMatches(e, lst) == Len(lst) = Len(e.labels)

\* '%s=%s' % (k, v)
KeyValue(k, v) == FormatS(k) \o <<"=">> \o FormatS(v)

\* line 101
TagSet(e, lst) ==
    Join(<<",">>, [n \in 1..Len(e.tag_columns_indexes) |->
        KeyValue(At(e.labels, e.tag_columns_indexes[n]),
                 sanitize(At(lst, e.tag_columns_indexes[n])))])

\* The measurement always followed by a comma, as '%s,%s' would give.
SeriesKey_AlwaysComma(e, lst) ==
    Join(<<",">>, <<e.measurement>> \o <<TagSet(e, lst)>>)

\* line 102
SeriesKey(e, lst) ==
    IF TagSet(e, lst) # <<>>
    THEN Join(<<",">>, <<e.measurement>> \o <<TagSet(e, lst)>>)
    ELSE e.measurement

\* line 103
FieldSet(e, lst) ==
    Join(<<",">>, [n \in 1..Len(e.field_columns_indexes) |->
        KeyValue(At(e.labels, e.field_columns_indexes[n]),
                 sanitize_field_value(At(lst, e.field_columns_indexes[n]),
                                      e.field_types[n]))])

\* lines 104-110: '%s %s %s' % (key, field_set, timestamp)
ExportLine(e, lst) ==
    FormatS(SeriesKey(e, lst)) \o <<" ">> \o FormatS(FieldSet(e, lst))
        \o <<" ">> \o FormatS(e.timestamp)

\* What export(lst) returns on the object e: the line, or the exception.
ExportResult(e, lst) ==
    IF ~ ArityMatches(e, lst)
    THEN [kind |-> "RowArityMismatch", ret |-> NoLine]
    ELSE [kind |-> "ok", ret |-> ExportLine(e, lst)]

\* export that consumes the tag positions it walks over.
Export_PopsTagIndexes(lst) ==
    /\ pc = "ready"
    /\ exports < MaxCalls
    /\ call' = [op |-> "export", lst |-> lst,
                kind |-> ExportResult(self, lst).kind,
                ret |-> ExportResult(self, lst).ret]
    /\ exports' = exports + 1
    /\ tag_columns_indexes' =
           IF ArityMatches(self, lst) /\ tag_columns_indexes # <<>>
           THEN Tail(tag_columns_indexes) ELSE tag_columns_indexes
    /\ UNCHANGED <<pc, args, labels, measurement, tag_columns, field_columns,
                   field_types, timestamp, field_columns_indexes, error, fn>>

Export(lst) ==
    /\ pc = "ready"
    /\ exports < MaxCalls
    /\ call' = [op |-> "export", lst |-> lst,
                kind |-> ExportResult(self, lst).kind,
                ret |-> ExportResult(self, lst).ret]
    /\ exports' = exports + 1
    /\ UNCHANGED <<pc, args, labels, measurement, tag_columns, field_columns,
                   field_types, timestamp, field_columns_indexes,
                   tag_columns_indexes, error, fn>>

---------------------------------------------------------------------------
(* The encoder: one construction, then any sequence of exports.            *)

Init ==
    /\ pc = "new"
    /\ args \in ArgsSet
    /\ labels = Unset
    /\ measurement = Unset
    /\ tag_columns = Unset
    /\ field_columns = Unset
    /\ field_types = Unset
    /\ timestamp = Unset
    /\ field_columns_indexes = Unset
    /\ tag_columns_indexes = Unset
    /\ error = "none"
    /\ call = NoCall
    /\ exports = 0
    /\ fn = NoFn

Next ==
    \/ Construct
    \/ \E lst \in Rows(Len(labels)) : Export(lst)

Spec == Init /\ [][Next]_vars

---------------------------------------------------------------------------
(* The static methods called on their own, on every short string over the  *)
(* characters the sanitizers distinguish.                                  *)

Chars == {"a", "A", ",", " ", "=", BS, DQ}

Strings == BSeq(Chars, MaxLen)

CallSanitize ==
    /\ pc = "static"
    /\ fn.name = "none"
    /\ fn' = [fn EXCEPT !.name = "sanitize", !.ret = sanitize(fn.value)]
    /\ UNCHANGED <<pc, args, labels, measurement, tag_columns, field_columns,
                   field_types, timestamp, field_columns_indexes,
                   tag_columns_indexes, error, call, exports>>

CallSanitizeMeasurement ==
    /\ pc = "static"
    /\ fn.name = "none"
    /\ fn' = [fn EXCEPT !.name = "sanitize_measurement",
                        !.ret = sanitize_measurement(fn.value)]
    /\ UNCHANGED <<pc, args, labels, measurement, tag_columns, field_columns,
                   field_types, timestamp, field_columns_indexes,
                   tag_columns_indexes, error, call, exports>>

CallSanitizeFieldValue ==
    /\ pc = "static"
    /\ fn.name = "none"
    /\ fn' = [fn EXCEPT !.name = "sanitize_field_value",
                        !.ret = sanitize_field_value(fn.value, fn.typ)]
    /\ UNCHANGED <<pc, args, labels, measurement, tag_columns, field_columns,
                   field_types, timestamp, field_columns_indexes,
                   tag_columns_indexes, error, call, exports>>

\* The arguments of the call are chosen here, the call itself is one step.
InitStatic ==
    /\ pc = "static"
    /\ args = ExampleArgs
    /\ labels = Unset
    /\ measurement = Unset
    /\ tag_columns = Unset
    /\ field_columns = Unset
    /\ field_types = Unset
    /\ timestamp = Unset
    /\ field_columns_indexes = Unset
    /\ tag_columns_indexes = Unset
    /\ error = "none"
    /\ call = NoCall
    /\ exports = 0
    /\ fn \in [name : {"none"}, value : Strings, typ : TypeTags, ret : {<<>>}]

NextStatic ==
    \/ CallSanitize
    \/ CallSanitizeMeasurement
    \/ CallSanitizeFieldValue

SpecStatic == InitStatic /\ [][NextStatic]_vars

---------------------------------------------------------------------------
(* Properties of export.                                                   *)

Constructed == pc = "ready"

Exported == pc = "ready" /\ call.op = "export"

ArityCorrect == Len(call.lst) = Len(args.labels)

\* The n-th item of the tag set of a row: the sanitized header at the
\* n-th tag position, an equals sign, the sanitized cell at that position.
TagItem(row, n) ==
    sanitize(args.labels[tag_columns_indexes[n] + 1]) \o <<"=">>
        \o sanitize(row[tag_columns_indexes[n] + 1])

\* The n-th item of the field set: the cell encoded by the n-th declared type.
FieldItem(row, n) ==
    sanitize(args.labels[field_columns_indexes[n] + 1]) \o <<"=">>
        \o sanitize_field_value(row[field_columns_indexes[n] + 1],
                                args.field_types[n])

RECURSIVE TagItems(_, _)
TagItems(row, n) ==
    IF n = 0 THEN <<>>
    ELSE IF n = 1 THEN TagItem(row, 1)
    ELSE TagItems(row, n - 1) \o <<",">> \o TagItem(row, n)

RECURSIVE FieldItems(_, _)
FieldItems(row, n) ==
    IF n = 0 THEN <<>>
    ELSE IF n = 1 THEN FieldItem(row, 1)
    ELSE FieldItems(row, n - 1) \o <<",">> \o FieldItem(row, n)

ExpectedKey(row) ==
    IF args.tag_columns = <<>>
    THEN sanitize_measurement(args.measurement)
    ELSE sanitize_measurement(args.measurement) \o <<",">>
             \o TagItems(row, Len(args.tag_columns))

ExpectedFields(row) == FieldItems(row, Len(args.field_columns))

C2_ExportLineWithoutTimestamp ==
    (Exported /\ ArityCorrect /\ args.timestamp = None) =>
        call.ret = ExpectedKey(call.lst) \o <<" ">> \o ExpectedFields(call.lst)

\* C5: a row whose length differs from the number of labels, shorter or
\* longer, makes export fail with RowArityMismatch and return no line.
C5_ArityMismatchRejected ==
    (Exported /\ ~ ArityCorrect) =>
        /\ call.kind = "RowArityMismatch"
        /\ call.ret = NoLine

C5_Witness ==
    /\ Exported
    /\ Len(call.lst) = Len(args.labels) + 1
    /\ args.tag_columns # <<>>
    /\ call.kind = "RowArityMismatch"

---------------------------------------------------------------------------
(* Properties of the constructor.                                          *)

Done == pc \in {"ready", "failed"}

SanitizedLabels == {sanitize(args.labels[i]) : i \in 1..Len(args.labels)}

SomeColumnUnknown ==
    \/ \E i \in 1..Len(args.tag_columns) :
           sanitize(args.tag_columns[i]) \notin SanitizedLabels
    \/ \E i \in 1..Len(args.field_columns) :
           sanitize(args.field_columns[i]) \notin SanitizedLabels

TypesWellFormed ==
    /\ Len(args.field_types) = Len(args.field_columns)
    /\ \A i \in 1..Len(args.field_types) : args.field_types[i] \in VALID_FIELD_TYPES

\* C6 as stated: whenever some sanitized tag or field column is not among
\* the sanitized labels, construction fails with UnknownColumn.
C6_UnknownColumnAlways ==
    (Done /\ SomeColumnUnknown) => (pc = "failed" /\ error = "UnknownColumn")

\* C6 amended: whenever some sanitized tag or field column is not among the
\* sanitized labels, construction fails and yields no encoder; the error is
\* UnknownColumn when the field-type list is well formed and InvalidSchema
\* when it is not.
C6_UnknownColumnRejected ==
    (Done /\ SomeColumnUnknown) =>
        /\ pc = "failed"
        /\ error = (IF TypesWellFormed THEN "UnknownColumn" ELSE "InvalidSchema")

C6_Witness ==
    /\ pc = "failed"
    /\ error = "UnknownColumn"
    /\ SomeColumnUnknown
    /\ args.labels # <<>>

\* C7: a field-type list whose length differs from the number of field
\* columns, or that holds a type other than float, int, str, bool, makes
\* construction fail with InvalidSchema, also when a column is unknown
\* (the type check comes first).
C7_InvalidSchemaRejected ==
    (Done /\ ~ TypesWellFormed) => (pc = "failed" /\ error = "InvalidSchema")

C7_Witness ==
    /\ pc = "failed"
    /\ error = "InvalidSchema"
    /\ Len(args.field_types) # Len(args.field_columns)
    /\ \A i \in 1..Len(args.field_types) : args.field_types[i] \in VALID_FIELD_TYPES
    /\ SomeColumnUnknown

\* C8: after a successful construction the i-th tag index and the i-th field
\* index are the positions of the i-th sanitized tag and field name within
\* the sanitized labels, so the key emitted for the i-th tag is the i-th
\* sanitized tag column name.
C8_IndexesArePositions ==
    Constructed =>
        /\ \A i \in 1..Len(tag_columns) :
               /\ tag_columns_indexes[i] = Index(labels, tag_columns[i])
               /\ labels[tag_columns_indexes[i] + 1] = tag_columns[i]
        /\ \A i \in 1..Len(field_columns) :
               /\ field_columns_indexes[i] = Index(labels, field_columns[i])
               /\ labels[field_columns_indexes[i] + 1] = field_columns[i]

\* C9: construction fails only with InvalidSchema or UnknownColumn; with a
\* well-formed type list and every sanitized column among the sanitized
\* labels it succeeds, and every export of an arity-correct row returns a line.
C9_OnlyTwoFailures ==
    /\ pc = "failed" => error \in {"InvalidSchema", "UnknownColumn"}
    /\ (Done /\ TypesWellFormed /\ ~ SomeColumnUnknown) => pc = "ready"
    /\ (Exported /\ ArityCorrect) => (call.kind = "ok" /\ call.ret # NoLine)

---------------------------------------------------------------------------
(* Export is read-only.                                                    *)

---------------------------------------------------------------------------
(* Properties of the sanitizers.                                           *)

EscapeQuote(c) == IF c = DQ THEN <<BS, DQ>> ELSE <<c>>

EscapeSpecial(c) ==
    IF c \in {",", " ", "="} THEN <<BS, c>> ELSE <<LowerChar(c)>>

\* One pass over s, a backslash put before each double quote.
RECURSIVE EscapeQuotes(_)
EscapeQuotes(s) ==
    IF s = <<>> THEN <<>> ELSE EscapeQuote(Head(s)) \o EscapeQuotes(Tail(s))

\* One pass over s, a backslash put before each comma, space and equals
\* sign, every other character lowercased.
RECURSIVE EscapeSpecials(_)
EscapeSpecials(s) ==
    IF s = <<>> THEN <<>> ELSE EscapeSpecial(Head(s)) \o EscapeSpecials(Tail(s))

\* C3: for str the value is wrapped in one pair of double quotes with every
\* embedded double quote preceded by a backslash and nothing else changed;
\* for int the value is followed by i; for float and bool it is unchanged.
C3_FieldValueEncoding ==
    (fn.name = "sanitize_field_value" /\ fn.typ \in VALID_FIELD_TYPES) =>
        fn.ret = (IF fn.typ = "str"
                  THEN <<DQ>> \o EscapeQuotes(fn.value) \o <<DQ>>
                  ELSE IF fn.typ = "int" THEN fn.value \o <<"i">>
                  ELSE fn.value)

\* C4: sanitize returns the lowercased input with exactly one backslash
\* inserted before each comma, space and equals sign of the input and no
\* other change; no inserted backslash is escaped again.
C4_SanitizeEscapesOnce ==
    fn.name = "sanitize" => fn.ret = EscapeSpecials(fn.value)

C4_Witness ==
    /\ fn.name = "sanitize"
    /\ fn.value = <<",", " ", "=">>
    /\ fn.ret = <<BS, ",", BS, " ", BS, "=">>

====
